---- MODULE Spec2Model ----
(***************************************************************************)
(* Model of include/macros.h: four function-like variadic macros whose     *)
(* replacement lists are selected by #ifdef OMPGPU.  Text is modelled as a *)
(* sequence of preprocessing tokens; a macro call substitutes each named   *)
(* parameter by its argument and __VA_ARGS__ by the trailing arguments     *)
(* joined with commas.                                                     *)
(*                                                                         *)
(* Call-site arguments are drawn from identifiers and operators that are   *)
(* neither macro names nor parentheses, so argument pre-expansion and the  *)
(* rescan of the result leave the substituted text as it is.               *)
(***************************************************************************)
EXTENDS Integers, Sequences, FiniteSets, TLC

\* OMPGPU  : whether the build defines the mode flag
\* macros  : the macro table in force after the header is read
\* last    : the most recent call site and its replacement text
\* emitted : the leading token of every directive emitted so far, in order
VARIABLES OMPGPU, macros, last, emitted

vars == <<OMPGPU, macros, last, emitted>>

\* ---------------------------------------------------------------- bounds
MaxObjs == 2
MaxLines == 2

\* ------------------------------------------------------- call-site inputs
Idents == {"bufferA", "bufferB"}

Conds == {<<"flag">>, <<"n", ">", "0">>}

\* one macro argument for copyin_arg / copy_arg: empty, or one identifier
ListArgs == {<<>>} \cup {<<x>> : x \in Idents}

ObjLists == UNION {[1..n -> {<<x>> : x \in Idents}] : n \in 1..MaxObjs}

MacroNames == {"GPU_DATA_ALLOC", "GPU_DATA_PRESENT_SIMPLE",
               "GPU_DATA_PRESENT_IF", "GPU_DATA_PRESENT_COPY"}

\* ------------------------------------------------- the macro definitions
\* variants of the replacement lists, each one slip away from the header
OMPGPU_GPU_DATA_ALLOC_Blank ==
  [params |-> <<>>, body |-> <<>>]

OMPGPU_GPU_DATA_ALLOC_MapTo ==
  [params |-> <<>>,
   body |-> <<"!$omp", "target", "data",
              "map", "(", "to", ":", "__VA_ARGS__", ")">>]

OMPGPU_GPU_DATA_ALLOC ==
  [params |-> <<>>,
   body |-> <<"!$omp", "target", "data",
              "map", "(", "alloc", ":", "__VA_ARGS__", ")">>]

OMPGPU_GPU_DATA_PRESENT_SIMPLE ==
  [params |-> <<>>,
   body |-> <<"!$omp", "target", "enter", "data",
              "map", "(", "present", ":", "__VA_ARGS__", ")">>]

OMPGPU_GPU_DATA_PRESENT_IF_TargetData ==
  [params |-> <<"condition_arg">>,
   body |-> <<"!$omp", "target", "data",
              "if", "(", "condition_arg", ")",
              "map", "(", "present", ":", "__VA_ARGS__", ")">>]

OMPGPU_GPU_DATA_PRESENT_IF ==
  [params |-> <<"condition_arg">>,
   body |-> <<"!$omp", "target", "enter", "data",
              "if", "(", "condition_arg", ")",
              "map", "(", "present", ":", "__VA_ARGS__", ")">>]

OMPGPU_GPU_DATA_PRESENT_COPY_Swapped ==
  [params |-> <<"condition_arg", "copyin_arg", "copy_arg">>,
   body |-> <<"!$omp", "target", "enter", "data",
              "if", "(", "condition_arg", ")",
              "map", "(", "present", ":", "__VA_ARGS__", ")",
              "map", "(", "to", ":", "copy_arg", ")",
              "map", "(", "tofrom", ":", "copyin_arg", ")">>]

OMPGPU_GPU_DATA_PRESENT_COPY ==
  [params |-> <<"condition_arg", "copyin_arg", "copy_arg">>,
   body |-> <<"!$omp", "target", "enter", "data",
              "if", "(", "condition_arg", ")",
              "map", "(", "present", ":", "__VA_ARGS__", ")",
              "map", "(", "to", ":", "copyin_arg", ")",
              "map", "(", "tofrom", ":", "copy_arg", ")">>]

ACC_GPU_DATA_ALLOC_AsOmp ==
  [params |-> <<>>,
   body |-> <<"!$omp", "target", "data",
              "map", "(", "alloc", ":", "__VA_ARGS__", ")">>]

ACC_GPU_DATA_ALLOC ==
  [params |-> <<>>,
   body |-> <<"!$acc", "enter", "data",
              "create", "(", "__VA_ARGS__", ")">>]

ACC_GPU_DATA_PRESENT_SIMPLE ==
  [params |-> <<>>,
   body |-> <<"!$acc", "data",
              "present", "(", "__VA_ARGS__", ")">>]

ACC_GPU_DATA_PRESENT_IF_Misnamed ==
  [params |-> <<"condition_arg">>,
   body |-> <<"!$acc", "data",
              "present", "(", "__VA_ARGS__", ")",
              "if", "(", "condition", ")">>]

ACC_GPU_DATA_PRESENT_IF ==
  [params |-> <<"condition_arg">>,
   body |-> <<"!$acc", "data",
              "present", "(", "__VA_ARGS__", ")",
              "if", "(", "condition_arg", ")">>]

ACC_GPU_DATA_PRESENT_COPY_NoCopyin ==
  [params |-> <<"condition_arg", "copyin_arg", "copy_arg">>,
   body |-> <<"!$acc", "data",
              "present", "(", "__VA_ARGS__", ")",
              "copy", "(", "copy_arg", ")",
              "if", "(", "condition_arg", ")">>]

ACC_GPU_DATA_PRESENT_COPY_CopyinTwice ==
  [params |-> <<"condition_arg", "copyin_arg", "copy_arg">>,
   body |-> <<"!$acc", "data",
              "present", "(", "__VA_ARGS__", ")",
              "copyin", "(", "copyin_arg", ")",
              "copy", "(", "copyin_arg", ")",
              "if", "(", "condition_arg", ")">>]

ACC_GPU_DATA_PRESENT_COPY ==
  [params |-> <<"condition_arg", "copyin_arg", "copy_arg">>,
   body |-> <<"!$acc", "data",
              "present", "(", "__VA_ARGS__", ")",
              "copyin", "(", "copyin_arg", ")",
              "copy", "(", "copy_arg", ")",
              "if", "(", "condition_arg", ")">>]

OmpBranch_MixedIn ==
  [n \in MacroNames |->
     CASE n = "GPU_DATA_ALLOC" -> OMPGPU_GPU_DATA_ALLOC
       [] n = "GPU_DATA_PRESENT_SIMPLE" -> ACC_GPU_DATA_PRESENT_SIMPLE
       [] n = "GPU_DATA_PRESENT_IF" -> OMPGPU_GPU_DATA_PRESENT_IF
       [] n = "GPU_DATA_PRESENT_COPY" -> OMPGPU_GPU_DATA_PRESENT_COPY]

OmpBranch ==
  [n \in MacroNames |->
     CASE n = "GPU_DATA_ALLOC" -> OMPGPU_GPU_DATA_ALLOC
       [] n = "GPU_DATA_PRESENT_SIMPLE" -> OMPGPU_GPU_DATA_PRESENT_SIMPLE
       [] n = "GPU_DATA_PRESENT_IF" -> OMPGPU_GPU_DATA_PRESENT_IF
       [] n = "GPU_DATA_PRESENT_COPY" -> OMPGPU_GPU_DATA_PRESENT_COPY]

AccBranch ==
  [n \in MacroNames |->
     CASE n = "GPU_DATA_ALLOC" -> ACC_GPU_DATA_ALLOC
       [] n = "GPU_DATA_PRESENT_SIMPLE" -> ACC_GPU_DATA_PRESENT_SIMPLE
       [] n = "GPU_DATA_PRESENT_IF" -> ACC_GPU_DATA_PRESENT_IF
       [] n = "GPU_DATA_PRESENT_COPY" -> ACC_GPU_DATA_PRESENT_COPY]

\* #ifdef OMPGPU ... #else ... #endif : the table the header leaves behind
Header(defined) == IF defined THEN OmpBranch ELSE AccBranch

\* ------------------------------------------------------ macro expansion
RECURSIVE Concat(_)
Concat(ss) == IF ss = <<>> THEN <<>> ELSE Head(ss) \o Concat(Tail(ss))

\* __VA_ARGS__ : the trailing arguments with the commas that separated them
RECURSIVE VaArgs(_)
VaArgs(as) ==
  IF as = <<>> THEN <<>>
  ELSE IF Len(as) = 1 THEN as[1]
  ELSE as[1] \o <<",">> \o VaArgs(Tail(as))

ParamIndex(params, tok) == CHOOSE i \in 1..Len(params) : params[i] = tok

IsParam(params, tok) == \E i \in 1..Len(params) : params[i] = tok

\* replacement of one macro call: actuals is the sequence of arguments
Expand(def, actuals) ==
  LET k == Len(def.params)
      va == VaArgs(SubSeq(actuals, k + 1, Len(actuals)))
      piece(tok) == IF tok = "__VA_ARGS__" THEN va
                    ELSE IF IsParam(def.params, tok)
                         THEN actuals[ParamIndex(def.params, tok)]
                    ELSE <<tok>>
  IN Concat([i \in 1..Len(def.body) |-> piece(def.body[i])])

\* ------------------------------------------------------------- the build
NoCall == [name |-> "", actuals |-> <<>>, text |-> <<>>]

LeadingToken(t) == IF t = <<>> THEN "" ELSE t[1]

Init ==
  /\ OMPGPU \in BOOLEAN
  /\ macros = Header(OMPGPU)
  /\ last = NoCall
  /\ emitted = <<>>

Invoke(name, actuals) ==
  /\ name \in DOMAIN macros
  /\ Len(actuals) >= Len(macros[name].params)
  /\ last' = [name |-> name, actuals |-> actuals,
              text |-> Expand(macros[name], actuals)]
  /\ emitted' = Append(emitted, LeadingToken(last'.text))
  /\ UNCHANGED <<OMPGPU, macros>>

Allocate ==
  /\ Len(emitted) < MaxLines
  /\ \E objs \in ObjLists : Invoke("GPU_DATA_ALLOC", objs)

PresentSimple ==
  /\ Len(emitted) < MaxLines
  /\ \E objs \in ObjLists : Invoke("GPU_DATA_PRESENT_SIMPLE", objs)

PresentConditional ==
  /\ Len(emitted) < MaxLines
  /\ \E cond \in Conds, objs \in ObjLists :
       Invoke("GPU_DATA_PRESENT_IF", <<cond>> \o objs)

PresentWithCopy ==
  /\ Len(emitted) < MaxLines
  /\ \E cond \in Conds, copyIn \in ListArgs, copyOut \in ListArgs,
        objs \in ObjLists :
       Invoke("GPU_DATA_PRESENT_COPY", <<cond, copyIn, copyOut>> \o objs)

Next == Allocate \/ PresentSimple \/ PresentConditional \/ PresentWithCopy

Spec == Init /\ [][Next]_vars

\* ------------------------------------------- reading an emitted directive
Count(seq, tok) == Cardinality({i \in 1..Len(seq) : seq[i] = tok})

IsSubSeq(s, t) ==
  \E i \in 0..(Len(t) - Len(s)) : SubSeq(t, i + 1, i + Len(s)) = s

FirstIdx(t, tok) ==
  IF \E i \in 1..Len(t) : t[i] = tok
  THEN CHOOSE i \in 1..Len(t) :
         t[i] = tok /\ \A j \in 1..(i - 1) : t[j] # tok
  ELSE 0

\* the sentinel and directive name: everything before the first clause
DirectiveHead(t) ==
  IF FirstIdx(t, "(") = 0 THEN t ELSE SubSeq(t, 1, FirstIdx(t, "(") - 2)

\* the clauses keyword(...) in order; map(kind: list) keeps its kind in mod
RECURSIVE Clauses(_)
Clauses(t) ==
  IF FirstIdx(t, "(") = 0 \/ FirstIdx(t, ")") = 0 THEN <<>>
  ELSE LET o == FirstIdx(t, "(")
           c == FirstIdx(t, ")")
           inner == SubSeq(t, o + 1, c - 1)
           isMap == t[o - 1] = "map" /\ Len(inner) >= 2 /\ inner[2] = ":"
           cl == IF isMap
                 THEN [kw |-> "map", mod |-> inner[1],
                       arg |-> SubSeq(inner, 3, Len(inner))]
                 ELSE [kw |-> t[o - 1], mod |-> "", arg |-> inner]
       IN <<cl>> \o Clauses(SubSeq(t, c + 1, Len(t)))

Role(cl) == IF cl.kw = "map" THEN cl.mod ELSE cl.kw

Render(cl) ==
  IF cl.kw = "map" THEN <<"map", "(", cl.mod, ":">> \o cl.arg \o <<")">>
  ELSE <<cl.kw, "(">> \o cl.arg \o <<")">>

\* the argument of every clause of the given role, in order
ArgsOf(t, role) ==
  LET sel == SelectSeq(Clauses(t), LAMBDA cl : Role(cl) = role)
  IN [i \in 1..Len(sel) |-> sel[i].arg]

\* the directive with the clauses of the given roles taken out
Without(t, roles) ==
  LET keep == SelectSeq(Clauses(t), LAMBDA cl : Role(cl) \notin roles)
  IN DirectiveHead(t) \o Concat([i \in 1..Len(keep) |-> Render(keep[i])])

FamilyOf(tok) ==
  IF tok = "!$omp" THEN "OpenMP"
  ELSE IF tok = "!$acc" THEN "OpenACC"
  ELSE "none"

Family(t) == FamilyOf(LeadingToken(t))

ActiveFamily == IF OMPGPU THEN "OpenMP" ELSE "OpenACC"
OtherFamily == IF OMPGPU THEN "OpenACC" ELSE "OpenMP"
Sentinel == IF OMPGPU THEN "!$omp" ELSE "!$acc"
AllocRole == IF OMPGPU THEN "alloc" ELSE "create"
CopyInRole == IF OMPGPU THEN "to" ELSE "copyin"
CopyRole == IF OMPGPU THEN "tofrom" ELSE "copy"

\* ----------------------------------------------- reading a call site
NamedOf(e) == SubSeq(e.actuals, 1, Len(macros[e.name].params))

ObjsOf(e) ==
  SubSeq(e.actuals, Len(macros[e.name].params) + 1, Len(e.actuals))

\* the identifiers of objs as written at the call site: x1 , x2 , ...
CommaList(objs) ==
  [i \in 1..(2 * Len(objs) - 1) |->
     IF i % 2 = 1 THEN objs[(i + 1) \div 2][1] ELSE ","]

CallSiteTokens ==
  Idents \cup {","} \cup UNION {{c[i] : i \in 1..Len(c)} : c \in Conds}

\* a guard, non-empty copy-in and copy-out lists, one or more objects
RepActuals(name) ==
  SubSeq(<<<<"flag">>, <<"bufferA">>, <<"bufferB">>>>,
         1, Len(macros[name].params))
    \o <<<<"bufferA">>, <<"bufferB">>>>

\* ================================================================ claims

\* C1: both tables define each of the four macros, and for a representative
\* argument list (guard, non-empty copy-in and copy-out, objects) every
\* expansion, computed from the table and as emitted, is non-empty text
\* that begins with the sentinel of the active family.
C1_TotalNonEmpty ==
  /\ DOMAIN macros = MacroNames
  /\ \A n \in MacroNames :
       /\ Len(Expand(macros[n], RepActuals(n))) > 0
       /\ Expand(macros[n], RepActuals(n))[1] = Sentinel
  /\ (/\ last.name \in MacroNames
      /\ \A k \in 1..Len(last.actuals) : last.actuals[k] # <<>>)
       => Len(last.text) > 0 /\ last.text[1] = Sentinel

C1_Witness ==
  /\ last.name = "GPU_DATA_PRESENT_COPY"
  /\ Len(last.actuals) = 5
  /\ \A k \in 1..5 : last.actuals[k] # <<>>
  /\ last.text[1] = Sentinel

\* C2: every expansion differs from what the other branch of the header
\* gives for the same call, and the two are of different families: the
\* active one is OpenMP exactly when OMPGPU is defined.
C2_ModeChangesOutput ==
  last.name \in MacroNames =>
    LET other == Expand(Header(~OMPGPU)[last.name], last.actuals)
    IN /\ other # last.text
       /\ Family(last.text) = ActiveFamily
       /\ Family(other) = OtherFamily

C2_Witness ==
  /\ last.name = "GPU_DATA_PRESENT_SIMPLE"
  /\ Family(last.text) = ActiveFamily
  /\ Family(Expand(Header(~OMPGPU)[last.name], last.actuals)) = OtherFamily

\* C3: a GPU_DATA_PRESENT_COPY expansion has exactly four clauses: the
\* copy-in clause holds copyIn, the bidirectional clause holds copyOut, the
\* present clause holds objs and the if clause holds cond, in both modes.
C3_CopyRoles ==
  last.name = "GPU_DATA_PRESENT_COPY" =>
    /\ Len(Clauses(last.text)) = 4
    /\ ArgsOf(last.text, CopyInRole) = <<last.actuals[2]>>
    /\ ArgsOf(last.text, CopyRole) = <<last.actuals[3]>>
    /\ ArgsOf(last.text, "present") = <<CommaList(ObjsOf(last))>>
    /\ ArgsOf(last.text, "if") = <<last.actuals[1]>>

C3_Witness ==
  /\ last.name = "GPU_DATA_PRESENT_COPY"
  /\ last.actuals[2] = <<"bufferA">>
  /\ last.actuals[3] = <<"bufferB">>
  /\ ArgsOf(last.text, CopyInRole) = <<<<"bufferA">>>>
  /\ ArgsOf(last.text, CopyRole) = <<<<"bufferB">>>>

\* C4: a GPU_DATA_PRESENT_IF expansion holds cond, token for token, in its
\* one if clause, and has the directive head and the present clause of
\* GPU_DATA_PRESENT_SIMPLE for the same objects.
C4_GuardVerbatim ==
  last.name = "GPU_DATA_PRESENT_IF" =>
    LET simple == Expand(macros["GPU_DATA_PRESENT_SIMPLE"], ObjsOf(last))
    IN /\ ArgsOf(last.text, "if") = <<last.actuals[1]>>
       /\ DirectiveHead(last.text) = DirectiveHead(simple)
       /\ ArgsOf(last.text, "present") = ArgsOf(simple, "present")
       /\ ArgsOf(last.text, "present") = <<CommaList(ObjsOf(last))>>

C4_Witness ==
  /\ last.name = "GPU_DATA_PRESENT_IF"
  /\ last.actuals[1] = <<"n", ">", "0">>
  /\ IsSubSeq(<<"if", "(", "n", ">", "0", ")">>, last.text)

\* C5: a GPU_DATA_ALLOC expansion has one clause, map(alloc: objs) when
\* OMPGPU is defined and create(objs) otherwise, and with a single object
\* the text holds that identifier exactly once.
C5_AllocateClause ==
  last.name = "GPU_DATA_ALLOC" =>
    /\ Len(Clauses(last.text)) = 1
    /\ Clauses(last.text)[1].kw = (IF OMPGPU THEN "map" ELSE "create")
    /\ Clauses(last.text)[1].mod = (IF OMPGPU THEN "alloc" ELSE "")
    /\ ArgsOf(last.text, AllocRole) = <<CommaList(ObjsOf(last))>>
    /\ Len(last.actuals) = 1 => Count(last.text, last.actuals[1][1]) = 1

C5_Witness ==
  /\ last.name = "GPU_DATA_ALLOC"
  /\ last.actuals = <<<<"bufferA">>>>
  /\ Count(last.text, "bufferA") = 1

\* C7: no expansion changes the mode flag or the macro table, and after
\* each one all directives emitted so far are of one family, the active one.
C7_FrameOneFamily ==
  [][/\ OMPGPU' = OMPGPU
     /\ macros' = macros
     /\ macros' = Header(OMPGPU')
     /\ \A i \in 1..Len(emitted') :
          /\ FamilyOf(emitted'[i]) = FamilyOf(emitted'[1])
          /\ FamilyOf(emitted'[i]) = ActiveFamily']_vars

C7_Witness ==
  /\ Len(emitted) >= 2
  /\ last.name = "GPU_DATA_PRESENT_COPY"
  /\ FamilyOf(emitted[1]) = FamilyOf(emitted[2])
  /\ macros = Header(OMPGPU)

\* C8 as stated: with an empty copyIn (copyOut) argument the expansion is
\* produced and has no copy-in (bidirectional) clause with an empty list.
C8_EmptyListNoClause ==
  last.name = "GPU_DATA_PRESENT_COPY" =>
    /\ last.actuals[2] = <<>> =>
         /\ Len(last.text) > 0
         /\ \A i \in 1..Len(Clauses(last.text)) :
              Role(Clauses(last.text)[i]) = CopyInRole
                => Clauses(last.text)[i].arg # <<>>
    /\ last.actuals[3] = <<>> =>
         /\ Len(last.text) > 0
         /\ \A i \in 1..Len(Clauses(last.text)) :
              Role(Clauses(last.text)[i]) = CopyRole
                => Clauses(last.text)[i].arg # <<>>

\* C8 amended: with an empty copyIn (copyOut) argument the expansion is
\* produced and still has its one copy-in (bidirectional) clause, whose
\* list is empty: map(to: ) / copyin()  (map(tofrom: ) / copy()).
C8_EmptyListKeepsClause ==
  last.name = "GPU_DATA_PRESENT_COPY" =>
    /\ last.actuals[2] = <<>> =>
         /\ Len(last.text) > 0
         /\ ArgsOf(last.text, CopyInRole) = <<<<>>>>
         /\ IsSubSeq(IF OMPGPU THEN <<"map", "(", "to", ":", ")">>
                     ELSE <<"copyin", "(", ")">>, last.text)
    /\ last.actuals[3] = <<>> =>
         /\ Len(last.text) > 0
         /\ ArgsOf(last.text, CopyRole) = <<<<>>>>
         /\ IsSubSeq(IF OMPGPU THEN <<"map", "(", "tofrom", ":", ")">>
                     ELSE <<"copy", "(", ")">>, last.text)

C8_Witness ==
  /\ last.name = "GPU_DATA_PRESENT_COPY"
  /\ last.actuals[2] = <<>>
  /\ last.actuals[3] = <<>>
  /\ Len(Clauses(last.text)) = 4

\* C9: in every expansion objs stands as one run x1 , x2 , ... in call-site
\* order, every call-site token occurs as often as in the arguments, the
\* macro name does not occur, and the text is the replacement list with
\* each parameter replaced once.
C9_ArgumentsPreserved ==
  last.name \in MacroNames =>
    LET given == Concat(NamedOf(last)) \o CommaList(ObjsOf(last))
    IN /\ IsSubSeq(CommaList(ObjsOf(last)), last.text)
       /\ \E i \in 1..Len(Clauses(last.text)) :
            Clauses(last.text)[i].arg = CommaList(ObjsOf(last))
       /\ \A tok \in CallSiteTokens :
            Count(last.text, tok) = Count(given, tok)
       /\ \A n \in MacroNames : Count(last.text, n) = 0
       /\ Len(last.text) =
            Len(macros[last.name].body)
              - (Len(macros[last.name].params) + 1) + Len(given)

C9_Witness ==
  /\ last.name = "GPU_DATA_PRESENT_COPY"
  /\ last.actuals = <<<<"n", ">", "0">>, <<"bufferB">>, <<"bufferA">>,
                      <<"bufferB">>, <<"bufferA">>>>
  /\ IsSubSeq(<<"bufferB", ",", "bufferA">>, last.text)

\* C10: taking the if clause out of a GPU_DATA_PRESENT_IF expansion gives
\* the GPU_DATA_PRESENT_SIMPLE expansion of the same objects; taking the
\* two copy clauses out of a GPU_DATA_PRESENT_COPY expansion gives the
\* GPU_DATA_PRESENT_IF expansion of the same guard and objects; and the
\* head of GPU_DATA_ALLOC is target data against target enter data with
\* OMPGPU, enter data against data without.
C10_Layering ==
  /\ last.name = "GPU_DATA_PRESENT_IF" =>
       Without(last.text, {"if"})
         = Expand(macros["GPU_DATA_PRESENT_SIMPLE"], ObjsOf(last))
  /\ last.name = "GPU_DATA_PRESENT_COPY" =>
       Without(last.text, {CopyInRole, CopyRole})
         = Expand(macros["GPU_DATA_PRESENT_IF"],
                  <<last.actuals[1]>> \o ObjsOf(last))
  /\ last.name = "GPU_DATA_ALLOC" =>
       /\ Tail(DirectiveHead(last.text))
            = (IF OMPGPU THEN <<"target", "data">> ELSE <<"enter", "data">>)
       /\ \A n \in MacroNames \ {"GPU_DATA_ALLOC"} :
            Tail(DirectiveHead(Expand(macros[n], RepActuals(n))))
              = (IF OMPGPU THEN <<"target", "enter", "data">>
                 ELSE <<"data">>)
  /\ last.name \in MacroNames \ {"GPU_DATA_ALLOC"} =>
       DirectiveHead(last.text)
         = DirectiveHead(Expand(macros["GPU_DATA_PRESENT_SIMPLE"],
                                ObjsOf(last)))

C10_Witness ==
  /\ last.name = "GPU_DATA_PRESENT_COPY"
  /\ last.actuals[2] # <<>>
  /\ last.actuals[3] # <<>>
  /\ Without(last.text, {CopyInRole, CopyRole}) # last.text
  /\ Len(Clauses(Without(last.text, {CopyInRole, CopyRole}))) = 2

====
